---- MODULE Spec2Model ----
(***************************************************************************)
(* Model of TGT: the entity-component-system (Entity, System, Scene), the  *)
(* AssetManager and the Timer.  Objects are named by strings; an object's  *)
(* fields are the values of the state functions at that name.  Strings the *)
(* code inspects or builds (entity ids, keys of Scene._entities) are       *)
(* sequences of one-character strings, so that Number.prototype.toString   *)
(* and the property enumeration order of a plain object are computed.      *)
(***************************************************************************)
EXTENDS Integers, Sequences, FiniteSets

\* ------------------------------------------------------------------ bounds
\* Number of operations called on the objects in one behaviour.
MaxOps == 5
\* The same, in the specification that also calls generateUID, query and
\* Entity.set, and in the one whose callers use two scenes.
MaxAllOps == 4
MaxTwoSceneOps == 3
\* The same, in the specification whose callers use entities outside a scene.
MaxEntityOps == 4
\* Number of operations the application calls outside any hook, in the
\* specification whose dispatch runs step by step.
MaxHookOps == 3
\* Number of onLoad calls on the asset manager in one behaviour.
MaxOnLoad == 3
\* Number of onTick calls on the timer in one behaviour.
MaxTickCallbacks == 1
\* Timer.ticks is followed up to MaxTicks: an animation frame whose callbacks
\* would take it further is left out.
MaxTicks == 5
\* Animation-frame requests of the timer pending at the same time.
MaxRaf == 2
\* performance.now() is followed up to MaxClock ms, in steps of up to
\* MaxStep ms from one step of the program to the next.
MaxClock == 6
MaxStep == 3

\* ------------------------------------------------------------ the objects
Scenes == {"sc1", "sc2"}
\* Scenes the callers of specification Spec operate on.
SpecScenes == {"sc1"}
Entities == {"e1", "e2"}
\* Component classes (Component.name).
Components == {"Position", "Velocity"}
\* System subclasses: sBase keeps the default test/init/exit of System,
\* the others override test, and sPos and sStill define an update method.
Systems == {"sPos", "sMove", "sStill", "sBase"}
\* Function names handed to dispatch: a hook only some systems define and
\* a method every system inherits from System.
FuncNames == {"update", "init"}
Params == {"undefined", "dt"}

\* JavaScript undefined, where an id string is expected.
Undefined == <<"undefined">>
\* Explicit ids handed to addEntity: "0" and "a".
ExplicitIds == {<<"0">>, <<"a">>}
NoEntity == "undefined"
Null == "null"
\* Field mappings handed to Entity.set, as plain objects: {} and {x: 1}.
SetData == {<< >>, <<[key |-> "x", value |-> 1]>>}
\* Argument lists handed to Entity.has: none, one or two components.
HasArgs == {<< >>} \cup {<<c>> : c \in Components}
              \cup {<<c, d>> : c \in Components, d \in Components}

\* ------------------------------------------------- strings and plain objects
Digits == <<"0", "1", "2", "3", "4", "5", "6", "7", "8", "9">>
DigitSet == {Digits[i] : i \in 1..10}

\* Number.prototype.toString of a non-negative integer.
RECURSIVE NumberToString(_)
NumberToString(n) ==
    IF n < 10 THEN <<Digits[n + 1]>>
    ELSE NumberToString(n \div 10) \o <<Digits[(n % 10) + 1]>>

DigitValue(c) == CHOOSE d \in 0..9 : Digits[d + 1] = c

RECURSIVE ToNumber(_)
ToNumber(k) ==
    IF Len(k) = 0 THEN 0
    ELSE 10 * ToNumber(SubSeq(k, 1, Len(k) - 1)) + DigitValue(k[Len(k)])

\* A property key that is a canonical array index (the decimal form of an
\* integer below 2^32 - 1): such keys are enumerated first and in ascending
\* numeric order by for-in.  Keys of ten digits do not occur in this model,
\* and every canonical key of up to nine digits is below 2^32 - 1.
IsArrayIndex(k) ==
    /\ Len(k) > 0
    /\ Len(k) <= 9
    /\ \A i \in 1..Len(k) : k[i] \in DigitSet
    /\ (Len(k) = 1 \/ k[1] # "0")

\* A plain object ({}) is the sequence of its own properties in creation
\* order, each a record [key, value].
ObjKeys(obj) == {obj[i].key : i \in 1..Len(obj)}

ObjGet(obj, k) ==
    IF k \in ObjKeys(obj)
    THEN obj[CHOOSE i \in 1..Len(obj) : obj[i].key = k].value
    ELSE NoEntity

\* A store that leaves an existing property as it is.
ObjSet_KeepFirst(obj, k, v) ==
    IF k \in {obj[i].key : i \in 1..Len(obj)} THEN obj
    ELSE Append(obj, [key |-> k, value |-> v])

\* obj[k] = v: an existing property keeps its place, a new one is appended.
ObjSet(obj, k, v) ==
    IF k \in ObjKeys(obj)
    THEN [i \in 1..Len(obj) |->
            IF obj[i].key = k THEN [key |-> k, value |-> v] ELSE obj[i]]
    ELSE Append(obj, [key |-> k, value |-> v])

\* The array-index keys of a set of keys, in ascending numeric order.
RECURSIVE SortedIndexKeys(_)
SortedIndexKeys(ks) ==
    IF ks = {} THEN <<>>
    ELSE LET m == CHOOSE k \in ks : \A j \in ks : ToNumber(k) <= ToNumber(j)
         IN  <<m>> \o SortedIndexKeys(ks \ {m})

\* SelectSeq without a higher-order argument: the keys of obj that are not
\* array indices, in creation order.
RECURSIVE StringKeys(_)
StringKeys(obj) ==
    IF Len(obj) = 0 THEN <<>>
    ELSE (IF IsArrayIndex(Head(obj).key) THEN <<>> ELSE <<Head(obj).key>>)
         \o StringKeys(Tail(obj))

\* The order in which `for (let id in obj)` visits the keys of obj.
ForInKeys(obj) ==
    SortedIndexKeys({k \in ObjKeys(obj) : IsArrayIndex(k)}) \o StringKeys(obj)

SeqToSet(s) == {s[i] : i \in 1..Len(s)}

\* Array.prototype.indexOf, 0-based, -1 when absent.
IndexOf(s, x) ==
    IF x \in SeqToSet(s)
    THEN (CHOOSE i \in 1..Len(s) : s[i] = x /\ \A j \in 1..(i - 1) : s[j] # x) - 1
    ELSE -1

\* Number of occurrences of x in the array s.
Occurrences(s, x) == Cardinality({i \in 1..Len(s) : s[i] = x})

\* ------------------------------------------------------------------ state
VARIABLES
    scene_entities,     \* Scene._entities: plain object id -> Entity
    scene_systems,      \* Scene._systems: array of System
    scene_count,        \* Scene._count
    entity_id,          \* Entity.id
    entity_systems,     \* Entity._systems: array of System
    entity_components,  \* Entity._components: name -> instance
    system_scene,       \* System.scene
    system_entities,    \* System.entities: array of Entity
    generated,          \* the ids Scene.generateUID has returned, in order
    op,                 \* the last operation called, its arguments and outcome
    calls,              \* the System methods that operation invoked, in order
    nops,               \* operations called so far
    dispatching,        \* the Scene.dispatch call in progress, if any
    am_images,          \* AssetManager._images: the asset names, in creation order
    img_complete,       \* HTMLImageElement.complete of the image of each name
    img_load,           \* images whose load event is queued and not yet delivered
    am_hasLoaded,       \* AssetManager._hasLoaded
    am_callbacks,       \* AssetManager._callbacks
    am_invoked,         \* how many times each onLoad callback has been called
    timer_ticks,        \* Timer.ticks
    timer_shouldStop,   \* Timer._shouldStop
    timer_then,         \* Timer._then
    timer_now,          \* Timer._now
    timer_callbacks,    \* Timer._callbacks
    timer_invoked,      \* the tick callbacks the last step called, in order
    raf,                \* animation-frame requests of the timer for the next frame
    frame,              \* callbacks of the timer the running frame has yet to run
    frame_invoked,      \* the tick callbacks called by the timer's callbacks of
                        \* the running (or last) animation frame, in order
    clock               \* performance.now()

ecsvars == <<scene_entities, scene_systems, scene_count, entity_id, entity_systems,
             entity_components, system_scene, system_entities, generated>>
amvars == <<am_images, img_complete, img_load, am_hasLoaded, am_callbacks, am_invoked>>
timervars == <<timer_ticks, timer_shouldStop, timer_then, timer_now, timer_callbacks,
               timer_invoked, raf, frame, frame_invoked, clock>>
\* What a method of Entity or Scene leaves alone.
othervars == <<dispatching, amvars, timervars>>

vars == <<ecsvars, op, calls, nops, othervars>>

\* ----------------------------------------------------------------- Entity
\* new component(): the fields the component class initialises.
NewComponent(c) ==
    IF c = "Position" THEN [x |-> 0, y |-> 0] ELSE [dx |-> 0]

\* Entity.add that keeps an instance the entity already holds.
EntityAdd_KeepPrior(comps, c) ==
    [n \in (DOMAIN comps) \cup {c} |->
        IF n \in DOMAIN comps THEN comps[n] ELSE NewComponent(c)]

\* Entity.add on the _components object comps.
EntityAdd(comps, c) ==
    [n \in (DOMAIN comps) \cup {c} |-> IF n = c THEN NewComponent(c) ELSE comps[n]]

\* new Entity(...components)
RECURSIVE EntityConstructor(_)
EntityConstructor(cs) ==
    IF Len(cs) = 0 THEN << >>
    ELSE EntityAdd(EntityConstructor(SubSeq(cs, 1, Len(cs) - 1)), cs[Len(cs)])

\* Entity.has(...components) on the _components object comps.
Has(comps, cs) == \A c \in cs : c \in DOMAIN comps

\* The loop of Entity.has over its argument list: false at the first
\* component whose entry of _components is undefined, true at the end.
RECURSIVE HasLoop_FirstOnly(_, _)
HasLoop_FirstOnly(comps, args) ==
    IF Len(args) = 0 THEN TRUE
    ELSE Head(args) \in DOMAIN comps

RECURSIVE HasLoop(_, _)
HasLoop(comps, args) ==
    IF Len(args) = 0 THEN TRUE
    ELSE IF Head(args) \notin DOMAIN comps THEN FALSE
    ELSE HasLoop(comps, Tail(args))

\* ----------------------------------------------------------------- System
\* System.test whose default accepts every entity.
Test_DefaultTrue(s, comps) ==
    CASE s = "sPos"   -> Has(comps, {"Position"})
      [] s = "sMove"  -> Has(comps, {"Position", "Velocity"})
      [] s = "sStill" -> ~Has(comps, {"Velocity"})
      [] s = "sBase"  -> TRUE

\* System.test, as overridden by each subclass.
Test(s, comps) ==
    CASE s = "sPos"   -> Has(comps, {"Position"})
      [] s = "sMove"  -> Has(comps, {"Position", "Velocity"})
      [] s = "sStill" -> ~Has(comps, {"Velocity"})
      [] s = "sBase"  -> FALSE

\* typeof system[funcName] === "function"
IsFunction(s, f) ==
    \/ f \in {"test", "init", "exit"}
    \/ f = "update" /\ s \in {"sPos", "sStill"}

Call(f, s, e, p) == [fn |-> f, sys |-> s, ent |-> e, param |-> p]

\* ------------------------------------------------------------------ Scene
GetEntity(sc, id) == ObjGet(scene_entities[sc], id)

\* generateUID that increments before it reads the counter.
GenerateUID_PreIncrement(n) == NumberToString(n + 1)

\* The result of generateUID on a scene whose _count is n.
GenerateUID(n) == NumberToString(n)

\* uid is the id generateUID returned during the operation, ret the array a
\* query returned, data the field mapping handed to Entity.set, args the
\* argument list handed to Entity.has, and seen what each init hook of the
\* operation finds in the two membership arrays when it is entered.
NoOp == [name |-> "-", scene |-> "-", entity |-> "-", system |-> "-",
         id |-> Undefined, component |-> "-", func |-> "-", param |-> "undefined",
         result |-> "undefined", uid |-> Undefined, ret |-> << >>,
         components |-> {}, data |-> << >>, args |-> << >>, seen |-> << >>]

\* No Scene.dispatch call is in progress.  Of a call in progress: si and ei
\* are the positions of the two array iterators, hooks the number of calls
\* of the function made so far, entities and systems the numbers of keys of
\* _entities and of elements of _systems when dispatch was called, and
\* planned the number of calls a traversal of the arrays as they were then
\* makes.
NoDispatch == [running |-> FALSE, scene |-> "-", func |-> "-", param |-> "undefined",
               si |-> 0, ei |-> 0, hooks |-> 0, entities |-> 0, systems |-> 0,
               planned |-> 0]

\* --------------------------------------------------------------- AssetManager
AssetNames == {"a", "b"}
\* The index handed to new AssetManager: no asset, one asset, two assets.
Indexes == {<< >>, <<"a">>, <<"a", "b">>}
\* The functions handed to onLoad.
Callbacks == {"cb1", "cb2"}

\* new AssetManager(index): an image per asset, none complete yet, each with
\* a load listener.
AssetManagerConstructor(index) ==
    /\ am_images = index
    /\ img_complete = [n \in AssetNames |-> FALSE]
    /\ img_load = {}
    /\ am_hasLoaded = FALSE
    /\ am_callbacks = << >>
    /\ am_invoked = [cb \in Callbacks |-> 0]

\* ---------------------------------------------------------------------- Timer
\* new Timer(fps) with fps = 500: interval is 1000 / fps = 2 ms.
Fps == 500
Interval == 1000 \div Fps

TimerConstructor ==
    /\ clock = 0
    /\ timer_then = 0
    /\ timer_now = 0
    /\ timer_ticks = 0
    /\ timer_callbacks = << >>
    /\ timer_shouldStop = FALSE
    /\ timer_invoked = << >>
    /\ raf = 0
    /\ frame = 0
    /\ frame_invoked = << >>

\* new Scene(), new Entity(...), new System() for the objects of the model.
SceneInit ==
    /\ scene_entities = [sc \in Scenes |-> << >>]
    /\ scene_systems = [sc \in Scenes |-> << >>]
    /\ scene_count = [sc \in Scenes |-> 0]
    /\ entity_id = [e \in Entities |-> << >>]
    /\ entity_systems = [e \in Entities |-> << >>]
    \* e1 = new Entity(), e2 = new Entity(Position)
    /\ entity_components = [e \in Entities |->
          IF e = "e1" THEN EntityConstructor(<< >>)
          ELSE EntityConstructor(<<"Position">>)]
    /\ system_scene = [s \in Systems |-> Null]
    /\ system_entities = [s \in Systems |-> << >>]
    /\ generated = [sc \in Scenes |-> << >>]
    /\ op = NoOp
    /\ calls = << >>
    /\ nops = 0
    /\ dispatching = NoDispatch

Init ==
    /\ SceneInit
    /\ AssetManagerConstructor(<< >>)
    /\ TimerConstructor

\* addEntity that records a match in system.entities only.
AddEntityStep_NoEntityPush(acc, s, e, comps) ==
    IF Test(s, comps)
    THEN [acc EXCEPT !.system_entities[s] = Append(@, e),
                     !.calls = @ \o <<Call("test", s, e, "undefined"),
                                       Call("init", s, e, "undefined")>>]
    ELSE [acc EXCEPT !.calls = Append(@, Call("test", s, e, "undefined"))]

\* What system.init(e) finds when it is entered with the arrays es
\* (e._systems) and se (s.entities).
Seen(s, e, es, se) ==
    [sys |-> s, ent |-> e, inSystems |-> s \in SeqToSet(es),
     inEntities |-> e \in SeqToSet(se)]

\* addEntity that calls init before it records the pair.
AddEntityStep_InitFirst(acc, s, e, comps) ==
    IF Test(s, comps)
    THEN [entity_systems  |-> [acc.entity_systems EXCEPT ![e] = Append(@, s)],
          system_entities |-> [acc.system_entities EXCEPT ![s] = Append(@, e)],
          calls |-> acc.calls \o <<Call("test", s, e, "undefined"),
                                   Call("init", s, e, "undefined")>>,
          seen  |-> Append(acc.seen,
                           Seen(s, e, acc.entity_systems[e], acc.system_entities[s]))]
    ELSE [acc EXCEPT !.calls = Append(@, Call("test", s, e, "undefined"))]

\* The body of the loop of addEntity for one system: test, the two pushes,
\* then init.
AddEntityStep(acc, s, e, comps) ==
    IF Test(s, comps)
    THEN LET es == Append(acc.entity_systems[e], s)
             se == Append(acc.system_entities[s], e)
         IN  [entity_systems  |-> [acc.entity_systems EXCEPT ![e] = es],
              system_entities |-> [acc.system_entities EXCEPT ![s] = se],
              calls |-> acc.calls \o <<Call("test", s, e, "undefined"),
                                       Call("init", s, e, "undefined")>>,
              seen  |-> Append(acc.seen, Seen(s, e, es, se))]
    ELSE [acc EXCEPT !.calls = Append(@, Call("test", s, e, "undefined"))]

RECURSIVE AddEntityLoop(_, _, _, _)
AddEntityLoop(acc, syss, e, comps) ==
    IF Len(syss) = 0 THEN acc
    ELSE AddEntityLoop(AddEntityStep(acc, Head(syss), e, comps), Tail(syss), e, comps)

Acc0 == [entity_systems |-> entity_systems, system_entities |-> system_entities,
         calls |-> << >>, seen |-> << >>]

\* The body of Scene.addEntity(entity, id).
AddEntityCall(sc, e, id) ==
    LET newId == IF id = Undefined THEN GenerateUID(scene_count[sc]) ELSE id
        acc == AddEntityLoop(Acc0, scene_systems[sc], e, entity_components[e])
    IN  /\ nops < MaxOps
        /\ scene_count' = [scene_count EXCEPT ![sc] = IF id = Undefined THEN @ + 1 ELSE @]
        /\ entity_id' = [entity_id EXCEPT ![e] = newId]
        /\ scene_entities' = [scene_entities EXCEPT ![sc] = ObjSet(@, newId, e)]
        /\ entity_systems' = acc.entity_systems
        /\ system_entities' = acc.system_entities
        /\ calls' = acc.calls
        /\ generated' = [generated EXCEPT ![sc] =
                            IF id = Undefined THEN Append(@, newId) ELSE @]
        /\ op' = [NoOp EXCEPT !.name = "addEntity", !.scene = sc, !.entity = e,
                               !.id = id, !.result = e,
                               !.uid = IF id = Undefined THEN newId ELSE Undefined,
                               !.seen = acc.seen]
        /\ nops' = nops + 1
        /\ UNCHANGED <<scene_systems, entity_components, system_scene>>

\* Scene.addEntity(entity, id), called by the application outside any hook
AddEntity(sc, e, id) == AddEntityCall(sc, e, id) /\ UNCHANGED othervars

\* this._entities.indexOf: Scene._entities is a plain object ({}), which has
\* no own or inherited property indexOf unless an entity was stored under
\* that id, and an Entity is not callable either.
EntitiesIndexOfIsCallable(sc) == FALSE

\* Scene.removeEntity(entity).  The call this._entities.indexOf(entity) on
\* the first line throws a TypeError (undefined is not a function) before
\* the method reads or writes anything else.
RemoveEntity(sc, e) ==
    /\ nops < MaxOps
    /\ ~EntitiesIndexOfIsCallable(sc)
    /\ op' = [NoOp EXCEPT !.name = "removeEntity", !.scene = sc, !.entity = e,
                           !.result = "TypeError"]
    /\ calls' = << >>
    /\ nops' = nops + 1
    /\ UNCHANGED othervars
    /\ UNCHANGED <<scene_entities, scene_systems, scene_count, entity_id,
                   entity_systems, entity_components, system_scene, system_entities,
                   generated>>

\* addSystem that does not scan the entities already in the scene.
AddSystemStep_NoScan(acc, s, ent, comps) == acc

\* The body of the loop of addSystem for one key of _entities; ent is
\* this.getEntity(id) and comps its _components.
AddSystemStep(acc, s, ent, comps) ==
    IF Test(s, comps)
    THEN [entity_systems  |-> [acc.entity_systems EXCEPT ![ent] = Append(@, s)],
          system_entities |-> [acc.system_entities EXCEPT ![s] = Append(@, ent)],
          calls |-> acc.calls \o <<Call("test", s, ent, "undefined"),
                                   Call("init", s, ent, "undefined")>>]
    ELSE [acc EXCEPT !.calls = Append(@, Call("test", s, ent, "undefined"))]

RECURSIVE AddSystemLoop(_, _, _, _)
AddSystemLoop(acc, ids, sc, s) ==
    IF Len(ids) = 0 THEN acc
    ELSE LET ent == GetEntity(sc, Head(ids))
         IN  AddSystemLoop(AddSystemStep(acc, s, ent, entity_components[ent]),
                           Tail(ids), sc, s)

\* Scene.addSystem(system)
AddSystem(sc, s) ==
    LET acc == AddSystemLoop(Acc0, ForInKeys(scene_entities[sc]), sc, s)
    IN  /\ nops < MaxOps
        /\ scene_systems' = [scene_systems EXCEPT ![sc] = Append(@, s)]
        /\ system_scene' = [system_scene EXCEPT ![s] = sc]
        /\ entity_systems' = acc.entity_systems
        /\ system_entities' = acc.system_entities
        /\ calls' = acc.calls
        /\ op' = [NoOp EXCEPT !.name = "addSystem", !.scene = sc, !.system = s]
        /\ nops' = nops + 1
        /\ UNCHANGED othervars
        /\ UNCHANGED <<scene_entities, scene_count, entity_id, entity_components,
                       generated>>

\* The calls of one system in Scene.dispatch: one per element of
\* system.entities, in the array's order.
RECURSIVE DispatchEntities(_, _, _, _)
DispatchEntities(s, ents, f, p) ==
    IF Len(ents) = 0 THEN << >>
    ELSE <<Call(f, s, Head(ents), p)>> \o DispatchEntities(s, Tail(ents), f, p)

RECURSIVE DispatchLoop(_, _, _)
DispatchLoop(syss, f, p) ==
    IF Len(syss) = 0 THEN << >>
    ELSE (IF IsFunction(Head(syss), f)
          THEN DispatchEntities(Head(syss), system_entities[Head(syss)], f, p)
          ELSE << >>)
         \o DispatchLoop(Tail(syss), f, p)

\* Scene.dispatch(funcName, param)
Dispatch(sc, f, p) ==
    /\ nops < MaxOps
    /\ calls' = DispatchLoop(scene_systems[sc], f, p)
    /\ op' = [NoOp EXCEPT !.name = "dispatch", !.scene = sc, !.func = f, !.param = p]
    /\ nops' = nops + 1
    /\ UNCHANGED othervars
    /\ UNCHANGED <<scene_entities, scene_systems, scene_count, entity_id,
                   entity_systems, entity_components, system_scene, system_entities,
                   generated>>

\* addComponentToEntity that re-tests every system.
NotIn_Always(ents, e) == TRUE

\* system.entities.indexOf(entity) === -1, on the array ents
NotIn(ents, e) == IndexOf(ents, e) = -1

\* addComponentToEntity that records a fresh match without calling init.
AddComponentStep_NoInit(acc, s, e, comps) ==
    IF NotIn(acc.system_entities[s], e) /\ Test(s, comps)
    THEN [acc EXCEPT !.system_entities[s] = Append(@, e),
                     !.entity_systems[e] = Append(@, s),
                     !.calls = Append(@, Call("test", s, e, "undefined"))]
    ELSE acc

\* The body of the loop of addComponentToEntity for one system.
AddComponentStep(acc, s, e, comps) ==
    IF NotIn(acc.system_entities[s], e)
    THEN IF Test(s, comps)
         THEN [system_entities |-> [acc.system_entities EXCEPT ![s] = Append(@, e)],
               entity_systems  |-> [acc.entity_systems EXCEPT ![e] = Append(@, s)],
               calls |-> acc.calls \o <<Call("test", s, e, "undefined"),
                                        Call("init", s, e, "undefined")>>]
         ELSE [acc EXCEPT !.calls = Append(@, Call("test", s, e, "undefined"))]
    ELSE acc

RECURSIVE AddComponentLoop(_, _, _, _)
AddComponentLoop(acc, syss, e, comps) ==
    IF Len(syss) = 0 THEN acc
    ELSE AddComponentLoop(AddComponentStep(acc, Head(syss), e, comps),
                          Tail(syss), e, comps)

\* Scene.addComponentToEntity(entity, component)
AddComponentToEntity(sc, e, c) ==
    LET comps == EntityAdd(entity_components[e], c)
        acc == AddComponentLoop(Acc0, scene_systems[sc], e, comps)
    IN  /\ nops < MaxOps
        /\ entity_components' = [entity_components EXCEPT ![e] = comps]
        /\ entity_systems' = acc.entity_systems
        /\ system_entities' = acc.system_entities
        /\ calls' = acc.calls
        /\ op' = [NoOp EXCEPT !.name = "addComponentToEntity", !.scene = sc,
                               !.entity = e, !.component = c]
        /\ nops' = nops + 1
        /\ UNCHANGED othervars
        /\ UNCHANGED <<scene_entities, scene_systems, scene_count, entity_id,
                       system_scene, generated>>

\* entity.add(component), called by the application directly
Add(e, c) ==
    /\ nops < MaxOps
    /\ entity_components' = [entity_components EXCEPT ![e] = EntityAdd(@, c)]
    /\ calls' = << >>
    /\ op' = [NoOp EXCEPT !.name = "add", !.entity = e, !.component = c]
    /\ nops' = nops + 1
    /\ UNCHANGED othervars
    /\ UNCHANGED <<scene_entities, scene_systems, scene_count, entity_id,
                   entity_systems, system_scene, system_entities, generated>>

RECURSIVE EntityDispatchLoop(_, _, _, _)
EntityDispatchLoop(syss, e, f, p) ==
    IF Len(syss) = 0 THEN << >>
    ELSE (IF IsFunction(Head(syss), f) THEN <<Call(f, Head(syss), e, p)>> ELSE << >>)
         \o EntityDispatchLoop(Tail(syss), e, f, p)

\* Entity.dispatch(funcName, param)
EntityDispatch(e, f, p) ==
    /\ nops < MaxOps
    /\ calls' = EntityDispatchLoop(entity_systems[e], e, f, p)
    /\ op' = [NoOp EXCEPT !.name = "Entity.dispatch", !.entity = e, !.func = f,
                           !.param = p]
    /\ nops' = nops + 1
    /\ UNCHANGED othervars
    /\ UNCHANGED <<scene_entities, scene_systems, scene_count, entity_id,
                   entity_systems, entity_components, system_scene, system_entities,
                   generated>>

\* Scene.generateUID(), called by the application directly
GenerateUIDCall(sc) ==
    /\ nops < MaxOps
    /\ scene_count' = [scene_count EXCEPT ![sc] = @ + 1]
    /\ generated' = [generated EXCEPT ![sc] = Append(@, GenerateUID(scene_count[sc]))]
    /\ calls' = << >>
    /\ op' = [NoOp EXCEPT !.name = "generateUID", !.scene = sc,
                           !.uid = GenerateUID(scene_count[sc])]
    /\ nops' = nops + 1
    /\ UNCHANGED othervars
    /\ UNCHANGED <<scene_entities, scene_systems, entity_id, entity_systems,
                   entity_components, system_scene, system_entities>>

\* The loop of Scene.query over the keys ids of _entities.
RECURSIVE QueryLoop(_, _, _)
QueryLoop(ids, sc, cs) ==
    IF Len(ids) = 0 THEN << >>
    ELSE (IF Has(entity_components[GetEntity(sc, Head(ids))], cs)
          THEN <<GetEntity(sc, Head(ids))>> ELSE << >>)
         \o QueryLoop(Tail(ids), sc, cs)

\* query that ignores its arguments.
Query_All(sc, cs) == QueryLoop(ForInKeys(scene_entities[sc]), sc, {})

\* The array Scene.query(...components) returns.
Query(sc, cs) == QueryLoop(ForInKeys(scene_entities[sc]), sc, cs)

\* Scene.query(...components)
QueryCall(sc, cs) ==
    /\ nops < MaxOps
    /\ calls' = << >>
    /\ op' = [NoOp EXCEPT !.name = "query", !.scene = sc, !.components = cs,
                           !.ret = Query(sc, cs)]
    /\ nops' = nops + 1
    /\ UNCHANGED othervars
    /\ UNCHANGED <<scene_entities, scene_systems, scene_count, entity_id,
                   entity_systems, entity_components, system_scene, system_entities,
                   generated>>

\* this._components[component.name] is undefined
GetIsUndefined(comps, c) == c \notin DOMAIN comps

\* Entity.get on the _components object comps, when it is not undefined.
EntityGet(comps, c) == comps[c]

\* A store that replaces the instance by an object with that one field.
Assign_DropOthers(inst, key, value) == [k \in {key} |-> value]

\* instance[key] = value
Assign(inst, key, value) ==
    [k \in (DOMAIN inst) \cup {key} |-> IF k = key THEN value ELSE inst[k]]

\* The loop of Entity.set on a held instance, over the properties of data.
RECURSIVE SetLoop(_, _)
SetLoop(inst, data) ==
    IF Len(data) = 0 THEN inst
    ELSE SetLoop(Assign(inst, Head(data).key, Head(data).value), Tail(data))

\* Entity.set throws: the loop body runs and this.get(component) is undefined.
SetThrows(comps, c, data) == Len(data) > 0 /\ GetIsUndefined(comps, c)

\* Entity.set(component, data)
Set(e, c, data) ==
    /\ nops < MaxOps
    /\ entity_components' =
          IF SetThrows(entity_components[e], c, data) \/ Len(data) = 0
          THEN entity_components
          ELSE [entity_components EXCEPT
                  ![e][c] = SetLoop(EntityGet(entity_components[e], c), data)]
    /\ calls' = << >>
    /\ op' = [NoOp EXCEPT !.name = "set", !.entity = e, !.component = c,
                           !.data = data,
                           !.result = IF SetThrows(entity_components[e], c, data)
                                      THEN "TypeError" ELSE "undefined"]
    /\ nops' = nops + 1
    /\ UNCHANGED othervars
    /\ UNCHANGED <<scene_entities, scene_systems, scene_count, entity_id,
                   entity_systems, system_scene, system_entities, generated>>

\* Entity.has(...components), called by the application directly
HasCall(e, args) ==
    /\ nops < MaxOps
    /\ calls' = << >>
    /\ op' = [NoOp EXCEPT !.name = "has", !.entity = e, !.args = args,
                           !.result = IF HasLoop(entity_components[e], args)
                                      THEN "true" ELSE "false"]
    /\ nops' = nops + 1
    /\ UNCHANGED othervars
    /\ UNCHANGED <<scene_entities, scene_systems, scene_count, entity_id,
                   entity_systems, entity_components, system_scene, system_entities,
                   generated>>

SceneNext(sc) ==
    \/ \E e \in Entities, id \in {Undefined} \cup ExplicitIds : AddEntity(sc, e, id)
    \/ \E e \in Entities : RemoveEntity(sc, e)
    \/ \E s \in Systems : AddSystem(sc, s)
    \/ \E f \in FuncNames, p \in Params : Dispatch(sc, f, p)
    \/ \E e \in Entities, c \in Components : AddComponentToEntity(sc, e, c)

EntityNext ==
    \/ \E e \in Entities, c \in Components : Add(e, c)
    \/ \E e \in Entities, f \in FuncNames, p \in Params : EntityDispatch(e, f, p)

Next ==
    \/ \E sc \in SpecScenes : SceneNext(sc)
    \/ EntityNext

Spec == Init /\ [][Next]_vars

\* The callers also generate ids, query the scene and set component data.
NextAll ==
    \/ \E sc \in SpecScenes, e \in Entities, id \in {Undefined} \cup ExplicitIds :
          nops < MaxAllOps /\ AddEntity(sc, e, id)
    \/ \E sc \in SpecScenes, e \in Entities :
          nops < MaxAllOps /\ RemoveEntity(sc, e)
    \/ \E sc \in SpecScenes, s \in Systems :
          nops < MaxAllOps /\ AddSystem(sc, s)
    \/ \E sc \in SpecScenes, f \in FuncNames, p \in Params :
          nops < MaxAllOps /\ Dispatch(sc, f, p)
    \/ \E sc \in SpecScenes, e \in Entities, c \in Components :
          nops < MaxAllOps /\ AddComponentToEntity(sc, e, c)
    \/ \E e \in Entities, c \in Components :
          nops < MaxAllOps /\ Add(e, c)
    \/ \E e \in Entities, f \in FuncNames, p \in Params :
          nops < MaxAllOps /\ EntityDispatch(e, f, p)
    \/ \E sc \in SpecScenes :
          nops < MaxAllOps /\ GenerateUIDCall(sc)
    \/ \E sc \in SpecScenes, cs \in SUBSET Components :
          nops < MaxAllOps /\ QueryCall(sc, cs)
    \/ \E e \in Entities, c \in Components, data \in SetData :
          nops < MaxAllOps /\ Set(e, c, data)

SpecAll == Init /\ [][NextAll]_vars

\* The callers use two scenes and share the entities and systems between them.
NextTwoScenes ==
    \/ \E sc \in Scenes, e \in Entities, id \in {Undefined} \cup ExplicitIds :
          nops < MaxTwoSceneOps /\ AddEntity(sc, e, id)
    \/ \E sc \in Scenes, e \in Entities :
          nops < MaxTwoSceneOps /\ RemoveEntity(sc, e)
    \/ \E sc \in Scenes, s \in Systems :
          nops < MaxTwoSceneOps /\ AddSystem(sc, s)
    \/ \E sc \in Scenes, f \in FuncNames, p \in Params :
          nops < MaxTwoSceneOps /\ Dispatch(sc, f, p)
    \/ \E sc \in Scenes, e \in Entities, c \in Components :
          nops < MaxTwoSceneOps /\ AddComponentToEntity(sc, e, c)
    \/ \E e \in Entities, c \in Components :
          nops < MaxTwoSceneOps /\ Add(e, c)
    \/ \E e \in Entities, f \in FuncNames, p \in Params :
          nops < MaxTwoSceneOps /\ EntityDispatch(e, f, p)

SpecTwoScenes == Init /\ [][NextTwoScenes]_vars

\* The callers work on entities that are in no scene.
NextEntity ==
    \/ \E e \in Entities, c \in Components :
          nops < MaxEntityOps /\ Add(e, c)
    \/ \E e \in Entities, c \in Components, data \in SetData :
          nops < MaxEntityOps /\ Set(e, c, data)
    \/ \E e \in Entities, args \in HasArgs :
          nops < MaxEntityOps /\ HasCall(e, args)

SpecEntity == Init /\ [][NextEntity]_vars

\* ------------------------------------------------- Scene.dispatch, step by step
\* An application whose sPos.update(entity) calls this.scene.addEntity(t)
\* for an entity t of its choice; the other functions of the systems change
\* nothing.
HookAddsEntity(s, f) == s = "sPos" /\ f = "update"

\* Scene.dispatch(funcName, param) is entered.
DispatchBegin(sc, f, p) ==
    /\ ~dispatching.running
    /\ nops < MaxHookOps
    /\ dispatching' = [running |-> TRUE, scene |-> sc, func |-> f, param |-> p,
                       si |-> 1, ei |-> 1, hooks |-> 0,
                       entities |-> Len(scene_entities[sc]),
                       systems |-> Len(scene_systems[sc]),
                       planned |-> Len(DispatchLoop(scene_systems[sc], f, p))]
    /\ op' = [NoOp EXCEPT !.name = "dispatch", !.scene = sc, !.func = f, !.param = p]
    /\ calls' = << >>
    /\ nops' = nops + 1
    /\ UNCHANGED <<ecsvars, amvars, timervars>>

\* The system the outer loop of dispatch is at, and whether the inner loop
\* has an element left: both iterators read the arrays as they are now.
DispatchSystem == scene_systems[dispatching.scene][dispatching.si]
DispatchAtSystem ==
    /\ dispatching.running
    /\ dispatching.si <= Len(scene_systems[dispatching.scene])
DispatchAtEntity ==
    /\ DispatchAtSystem
    /\ IsFunction(DispatchSystem, dispatching.func)
    /\ dispatching.ei <= Len(system_entities[DispatchSystem])

\* system[funcName](entity, param), for a function that changes nothing
DispatchHook ==
    /\ DispatchAtEntity
    /\ ~HookAddsEntity(DispatchSystem, dispatching.func)
    /\ dispatching' = [dispatching EXCEPT !.ei = @ + 1, !.hooks = @ + 1]
    /\ UNCHANGED <<ecsvars, op, calls, nops, amvars, timervars>>

\* system[funcName](entity, param), for the function that adds entity t
DispatchHookAdds(t) ==
    /\ DispatchAtEntity
    /\ HookAddsEntity(DispatchSystem, dispatching.func)
    /\ dispatching' = [dispatching EXCEPT !.ei = @ + 1, !.hooks = @ + 1]
    /\ AddEntityCall(dispatching.scene, t, Undefined)
    /\ UNCHANGED <<amvars, timervars>>

\* The inner loop is over (or the system has no such function): next system.
DispatchNextSystem ==
    /\ DispatchAtSystem
    /\ ~DispatchAtEntity
    /\ dispatching' = [dispatching EXCEPT !.si = @ + 1, !.ei = 1]
    /\ UNCHANGED <<ecsvars, op, calls, nops, amvars, timervars>>

\* The outer loop is over: dispatch returns.
DispatchReturn ==
    /\ dispatching.running
    /\ ~DispatchAtSystem
    /\ dispatching' = [dispatching EXCEPT !.running = FALSE]
    /\ UNCHANGED <<ecsvars, op, calls, nops, amvars, timervars>>

\* The application sets the scene up and dispatches; its calls of dispatch
\* run step by step.
NextHooks ==
    \/ \E sc \in SpecScenes, s \in Systems :
          ~dispatching.running /\ nops < MaxHookOps /\ AddSystem(sc, s)
    \/ \E sc \in SpecScenes, e \in Entities :
          ~dispatching.running /\ nops < MaxHookOps /\ AddEntity(sc, e, Undefined)
    \/ \E e \in Entities, c \in Components :
          ~dispatching.running /\ nops < MaxHookOps /\ Add(e, c)
    \/ \E sc \in SpecScenes, f \in FuncNames, p \in Params : DispatchBegin(sc, f, p)
    \/ DispatchHook
    \/ \E t \in Entities : DispatchHookAdds(t)
    \/ DispatchNextSystem
    \/ DispatchReturn

SpecHooks == Init /\ [][NextHooks]_vars

\* --------------------------------------------------------------- AssetManager
\* The browser has fetched the image of asset n: its complete becomes true
\* and its load event is queued.
ImageComplete(n) ==
    /\ n \in SeqToSet(am_images)
    /\ ~img_complete[n]
    /\ img_complete' = [img_complete EXCEPT ![n] = TRUE]
    /\ img_load' = img_load \cup {n}
    /\ UNCHANGED <<am_images, am_hasLoaded, am_callbacks, am_invoked>>
    /\ UNCHANGED <<ecsvars, op, calls, nops, dispatching, timervars>>

\* The loop of the load listener over the keys of _images: FALSE when it
\* returns at an image that is not complete, TRUE when it runs to its end.
RECURSIVE LoadListenerLoop(_)
LoadListenerLoop(names) ==
    IF Len(names) = 0 THEN TRUE
    ELSE IF ~img_complete[Head(names)] THEN FALSE
    ELSE LoadListenerLoop(Tail(names))

\* for (let callback of callbacks) callback(), on the call counts inv.
RECURSIVE InvokeAll(_, _)
InvokeAll(inv, cbs) ==
    IF Len(cbs) = 0 THEN inv
    ELSE InvokeAll([inv EXCEPT ![Head(cbs)] = @ + 1], Tail(cbs))

\* The load listener the constructor adds to the image of asset n.
LoadListener(n) ==
    /\ am_hasLoaded' = LoadListenerLoop(am_images)
    /\ am_invoked' = IF LoadListenerLoop(am_images)
                     THEN InvokeAll(am_invoked, am_callbacks)
                     ELSE am_invoked

\* The browser delivers the queued load event of the image of asset n.
LoadEvent(n) ==
    /\ n \in img_load
    /\ img_load' = img_load \ {n}
    /\ LoadListener(n)
    /\ UNCHANGED <<am_images, img_complete, am_callbacks>>
    /\ UNCHANGED <<ecsvars, op, calls, nops, dispatching, timervars>>

\* AssetManager.onLoad(callback)
OnLoad(cb) ==
    /\ Len(am_callbacks) < MaxOnLoad
    /\ am_callbacks' = Append(am_callbacks, cb)
    /\ am_invoked' = IF am_hasLoaded THEN [am_invoked EXCEPT ![cb] = @ + 1]
                     ELSE am_invoked
    /\ UNCHANGED <<am_images, img_complete, img_load, am_hasLoaded>>
    /\ UNCHANGED <<ecsvars, op, calls, nops, dispatching, timervars>>

InitAssets ==
    /\ SceneInit
    /\ \E index \in Indexes : AssetManagerConstructor(index)
    /\ TimerConstructor

NextAssets ==
    \/ \E n \in AssetNames : ImageComplete(n)
    \/ \E n \in AssetNames : LoadEvent(n)
    \/ \E cb \in Callbacks : OnLoad(cb)

\* The browser delivers every load event it has queued.
SpecAssets ==
    /\ InitAssets
    /\ [][NextAssets]_vars
    /\ \A n \in AssetNames : WF_vars(LoadEvent(n))

\* ---------------------------------------------------------------------- Timer
\* The functions handed to onTick.
TickCallbacks == {"t1", "t2"}

\* Timer.onTick(callback)
OnTick(cb) ==
    /\ Len(timer_callbacks) < MaxTickCallbacks
    /\ timer_callbacks' = Append(timer_callbacks, cb)
    /\ timer_invoked' = << >>
    /\ UNCHANGED <<timer_ticks, timer_shouldStop, timer_then, timer_now, raf, frame,
                   frame_invoked, clock>>
    /\ UNCHANGED <<ecsvars, op, calls, nops, dispatching, amvars>>

\* The fields one call of tick reads and writes, and what it has done so far.
TimerFields == [ticks |-> timer_ticks, then |-> timer_then, now |-> timer_now,
                invoked |-> << >>, raf |-> 0]

\* Timer.tick(), with performance.now() = time and _shouldStop = shouldStop.
Tick(t, time, shouldStop) ==
    LET delta == time - t.then
        due == delta >= Interval
    IN  [ticks   |-> t.ticks + 1,
         now     |-> time,
         then    |-> IF due THEN time - (delta % Interval) ELSE t.then,
         invoked |-> IF due THEN t.invoked \o timer_callbacks ELSE t.invoked,
         raf     |-> IF shouldStop THEN t.raf ELSE t.raf + 1]

\* The animation-frame requests of the timer whose callback has not run.
Pending == raf + frame

\* Timer.start(), while fewer than MaxRaf requests are pending.  The request
\* its tick makes is one for the next animation frame, also when start is
\* called by other code of a running frame.
Start ==
    LET t == Tick([TimerFields EXCEPT !.ticks = 0], clock, FALSE)
    IN  /\ Pending < MaxRaf
        /\ timer_shouldStop' = FALSE
        /\ timer_ticks' = t.ticks
        /\ timer_now' = t.now
        /\ timer_then' = t.then
        /\ timer_invoked' = t.invoked
        /\ raf' = raf + t.raf
        /\ UNCHANGED <<timer_callbacks, frame, frame_invoked, clock>>
        /\ UNCHANGED <<ecsvars, op, calls, nops, dispatching, amvars>>

\* Timer.stop()
Stop ==
    /\ timer_shouldStop' = TRUE
    /\ timer_invoked' = << >>
    /\ UNCHANGED <<timer_ticks, timer_then, timer_now, timer_callbacks, raf, frame,
                   frame_invoked, clock>>
    /\ UNCHANGED <<ecsvars, op, calls, nops, dispatching, amvars>>

\* Time passes: performance.now() is d ms later.  It does so between any two
\* steps, those of one animation frame included.
Elapse(d) ==
    /\ clock + d <= MaxClock
    /\ clock' = clock + d
    /\ timer_invoked' = << >>
    /\ UNCHANGED <<timer_ticks, timer_shouldStop, timer_then, timer_now,
                   timer_callbacks, raf, frame, frame_invoked>>
    /\ UNCHANGED <<ecsvars, op, calls, nops, dispatching, amvars>>

\* The browser begins an animation frame: the callbacks requested so far are
\* the ones this frame runs, and what is requested from now on is left for
\* the frame after it.
FrameBegin ==
    /\ frame = 0
    /\ raf > 0
    /\ timer_ticks + raf <= MaxTicks
    /\ frame' = raf
    /\ raf' = 0
    /\ frame_invoked' = << >>
    /\ timer_invoked' = << >>
    /\ UNCHANGED <<timer_ticks, timer_shouldStop, timer_then, timer_now,
                   timer_callbacks, clock>>
    /\ UNCHANGED <<ecsvars, op, calls, nops, dispatching, amvars>>

\* The browser runs the next callback of the timer in the running frame:
\* () => { this.tick(); }, and returns to the browser.  Other code (OnTick,
\* Start, Stop of callbacks of the application) may run before the next one.
FrameTick ==
    LET t == Tick(TimerFields, clock, timer_shouldStop)
    IN  /\ frame > 0
        /\ frame' = frame - 1
        /\ timer_ticks' = t.ticks
        /\ timer_now' = t.now
        /\ timer_then' = t.then
        /\ timer_invoked' = t.invoked
        /\ frame_invoked' = frame_invoked \o t.invoked
        /\ raf' = raf + t.raf
        /\ UNCHANGED <<timer_callbacks, timer_shouldStop, clock>>
        /\ UNCHANGED <<ecsvars, op, calls, nops, dispatching, amvars>>

NextTimer ==
    \/ \E cb \in TickCallbacks : OnTick(cb)
    \/ Start
    \/ Stop
    \/ \E d \in 1..MaxStep : Elapse(d)
    \/ FrameBegin
    \/ FrameTick

\* The browser runs every animation frame that was requested, and every
\* callback of a frame it has begun.
SpecTimer ==
    /\ Init
    /\ [][NextTimer]_vars
    /\ WF_vars(FrameBegin)
    /\ WF_vars(FrameTick)

\* ================================================================ properties
Member(e, s) == e \in SeqToSet(system_entities[s])

\* The entities stored in Scene._entities.
SceneEntities(sc) == {scene_entities[sc][i].value : i \in 1..Len(scene_entities[sc])}

SceneSystems(sc) == SeqToSet(scene_systems[sc])

IsPrefix(a, b) == Len(a) <= Len(b) /\ SubSeq(b, 1, Len(a)) = a

\* Number of calls of f on system s with entity e in the call log cs.
CountCalls(cs, f, s, e) ==
    Cardinality({i \in 1..Len(cs) : cs[i].fn = f /\ cs[i].sys = s /\ cs[i].ent = e})

MembershipOps == {"addEntity", "addSystem", "addComponentToEntity"}

\* C1: membership symmetry.  In every state, hence after every addEntity,
\* removeEntity, addSystem and addComponentToEntity, entity e is in
\* s.entities if and only if system s is in e._systems.
C1_MembershipSymmetry ==
    \A e \in Entities, s \in Systems :
        e \in SeqToSet(system_entities[s]) <=> s \in SeqToSet(entity_systems[e])

\* An addComponentToEntity has just recorded a new pair, while another pair
\* of the scene is not in the relation.
C1_Witness ==
    /\ op.name = "addComponentToEntity"
    /\ \E i \in 1..Len(calls) : calls[i].fn = "init"
    /\ \E e \in SceneEntities(op.scene), s \in SceneSystems(op.scene) : ~Member(e, s)

\* C2 as stated: right after addEntity, addSystem or addComponentToEntity,
\* every entity stored in the scene is a member of every system of the scene
\* exactly when the system's test holds of it at that moment.
C2_Original ==
    op.name \in MembershipOps =>
        \A e \in SceneEntities(op.scene), s \in SceneSystems(op.scene) :
            Member(e, s) <=> Test(s, entity_components[e])

\* C2, amended: an addEntity, addSystem or addComponentToEntity call leaves
\* every pair it scans (the given entity with each system of the scene, the
\* given system with each entity stored in the scene) a member whenever test
\* holds of it at that moment, and every entry the call appends to a
\* system's entities is one whose test holds at that moment.  Membership
\* recorded earlier is kept when test has become false, and pairs the call
\* does not scan are not re-evaluated.
C2_PredicateConsistency ==
    [][op'.name \in MembershipOps =>
        /\ op'.name \in {"addEntity", "addComponentToEntity"} =>
              \A s \in SeqToSet(scene_systems'[op'.scene]) :
                  Test(s, entity_components'[op'.entity])
                      => op'.entity \in SeqToSet(system_entities'[s])
        /\ op'.name = "addSystem" =>
              \A i \in 1..Len(scene_entities'[op'.scene]) :
                  LET e == scene_entities'[op'.scene][i].value
                  IN  Test(op'.system, entity_components'[e])
                          => e \in SeqToSet(system_entities'[op'.system])
        /\ \A s \in Systems :
              \A i \in (Len(system_entities[s]) + 1)..Len(system_entities'[s]) :
                  Test(s, entity_components'[system_entities'[s][i]])
    ]_vars

\* An addSystem has matched an entity that was stored before the system was
\* added, and left out another stored entity whose test fails.
C2_Witness ==
    /\ op.name = "addSystem"
    /\ \E e \in SceneEntities(op.scene) :
          Test(op.system, entity_components[e]) /\ Member(e, op.system)
    /\ \E e \in SceneEntities(op.scene) :
          ~Test(op.system, entity_components[e]) /\ ~Member(e, op.system)

\* C3 as stated: an entity in a system's entities is stored in the system's
\* scene under its id, and the system is in that scene's _systems.
C3_MembershipImpliesPresence ==
    \A e \in Entities, s \in Systems :
        Member(e, s) =>
            /\ system_scene[s] # Null
            /\ GetEntity(system_scene[s], entity_id[e]) = e
            /\ s \in SceneSystems(system_scene[s])

\* C4 as stated: during addEntity, addSystem and addComponentToEntity, every
\* init(e) called on s finds e not in s.entities before the operation and in
\* it afterwards, and is called once.
C4_InitOncePerTransition ==
    [][op'.name \in MembershipOps =>
        \A i \in 1..Len(calls') :
            calls'[i].fn = "init" =>
                /\ ~Member(calls'[i].ent, calls'[i].sys)
                /\ calls'[i].ent \in SeqToSet(system_entities'[calls'[i].sys])
                /\ CountCalls(calls', "init", calls'[i].sys, calls'[i].ent) = 1
    ]_vars

\* C5 as stated: removeEntity(e), for e stored in the scene and a member of
\* two systems or more, calls exit(e) once on each of them, clears e.id and
\* leaves getEntity(original id) undefined.
C5_RemoveEntityExits ==
    [][(/\ op'.name = "removeEntity"
        /\ GetEntity(op'.scene, entity_id[op'.entity]) = op'.entity
        /\ Cardinality(SeqToSet(entity_systems[op'.entity])) >= 2)
       =>
       /\ \A s \in SeqToSet(entity_systems[op'.entity]) :
              CountCalls(calls', "exit", s, op'.entity) = 1
       /\ entity_id'[op'.entity] = << >>
       /\ ObjGet(scene_entities'[op'.scene], entity_id[op'.entity]) = NoEntity
    ]_vars

\* C6 as stated: after removeEntity(e), for e stored in the scene, e is in
\* no system's entities, e._systems is empty, e is not stored in the scene,
\* and the membership and the stored entry of every other entity are as
\* before.
C6_RemoveEntityFrame ==
    [][(/\ op'.name = "removeEntity"
        /\ GetEntity(op'.scene, entity_id[op'.entity]) = op'.entity)
       =>
       /\ \A s \in Systems : op'.entity \notin SeqToSet(system_entities'[s])
       /\ entity_systems'[op'.entity] = << >>
       /\ \A i \in 1..Len(scene_entities'[op'.scene]) :
              scene_entities'[op'.scene][i].value # op'.entity
       /\ \A e \in Entities \ {op'.entity} :
              /\ entity_systems'[e] = entity_systems[e]
              /\ \A s \in Systems : Occurrences(system_entities'[s], e)
                                      = Occurrences(system_entities[s], e)
              /\ ObjGet(scene_entities'[op'.scene], entity_id[e])
                    = ObjGet(scene_entities[op'.scene], entity_id[e])
    ]_vars

\* C7 as stated: an entity whose id is the empty string has an empty
\* _systems and is in no system's entities, and removeEntity leaves the
\* entity's components as they were.
C7_DetachedEntity ==
    /\ [](\A e \in Entities :
            entity_id[e] = << >> =>
                /\ entity_systems[e] = << >>
                /\ \A s \in Systems : ~Member(e, s))
    /\ [][op'.name = "removeEntity" => entity_components' = entity_components]_vars

\* C8: for the system sPos, whose test is entity.has(Position): an
\* addSystem(sPos) on a scene whose stored entities all lack Position leaves
\* sPos.entities empty and calls no init; an addComponentToEntity(e, Position)
\* in a scene that has sPos, with sPos.entities still empty, puts e in
\* sPos.entities once and calls sPos.init(e) exactly once.
C8_PositionScenario ==
    [][/\ (/\ op'.name = "addSystem"
           /\ op'.system = "sPos"
           /\ system_entities["sPos"] = << >>
           /\ \A e \in SceneEntities(op'.scene) :
                  ~Has(entity_components[e], {"Position"}))
          => /\ system_entities'["sPos"] = << >>
             /\ \A i \in 1..Len(calls') : calls'[i].fn # "init"
       /\ (/\ op'.name = "addComponentToEntity"
           /\ op'.component = "Position"
           /\ "sPos" \in SceneSystems(op'.scene)
           /\ system_entities["sPos"] = << >>)
          => /\ system_entities'["sPos"] = <<op'.entity>>
             /\ CountCalls(calls', "init", "sPos", op'.entity) = 1
             /\ \A i \in 1..Len(calls') :
                    calls'[i].fn = "init" /\ calls'[i].sys = "sPos"
                        => calls'[i].ent = op'.entity
    ]_vars

\* The scenario's last state: the entity was stored without Position, sPos
\* was added and matched nothing, and addComponentToEntity(e, Position) has
\* made e the one member of sPos.
C8_Witness ==
    /\ op.name = "addComponentToEntity"
    /\ op.component = "Position"
    /\ nops = 3
    /\ scene_systems[op.scene] = <<"sPos">>
    /\ SceneEntities(op.scene) = {op.entity}
    /\ system_entities["sPos"] = <<op.entity>>
    /\ calls = <<Call("test", "sPos", op.entity, "undefined"),
                 Call("init", "sPos", op.entity, "undefined")>>

\* C9: addComponentToEntity only appends to system.entities and to
\* entity._systems, calls neither test nor init on a system whose entities
\* hold the entity (from before the operation, or from an earlier match in
\* the same operation), and calls no exit.
C9_AddComponentOnlyGrows ==
    [][op'.name = "addComponentToEntity" =>
        /\ \A s \in Systems : IsPrefix(system_entities[s], system_entities'[s])
        /\ \A e \in Entities : IsPrefix(entity_systems[e], entity_systems'[e])
        /\ \A i \in 1..Len(calls') :
              /\ calls'[i].fn \in {"test", "init"}
              /\ calls'[i].ent = op'.entity
              /\ ~Member(op'.entity, calls'[i].sys)
              /\ \A j \in 1..(i - 1) :
                    calls'[j].fn = "init" => calls'[j].sys # calls'[i].sys
    ]_vars

\* An addComponentToEntity has skipped a system of the scene that already
\* held the entity and has matched the entity with another system.
C9_Witness ==
    /\ op.name = "addComponentToEntity"
    /\ \E s \in SceneSystems(op.scene) :
          /\ Member(op.entity, s)
          /\ \A i \in 1..Len(calls) : calls[i].sys # s
    /\ \E i \in 1..Len(calls) : calls[i].fn = "init"

\* C10 as stated: the calls of Scene.dispatch(f, p) are calls f(entity, p)
\* of systems of the scene that have a function f, with an entity of that
\* system's entities; every such (system, entity) pair is called exactly
\* once; the calls are ordered by the system's place in _systems first and
\* by the entity's place in the system's entities second; systems without
\* f are not called.
C10_SceneDispatch ==
    op.name = "dispatch" =>
        LET syss == scene_systems[op.scene]
            withF == {s \in SeqToSet(syss) : IsFunction(s, op.func)}
        IN  /\ \A i \in 1..Len(calls) :
                  /\ calls[i].fn = op.func
                  /\ calls[i].param = op.param
                  /\ calls[i].sys \in withF
                  /\ Member(calls[i].ent, calls[i].sys)
            /\ \A s \in withF : \A e \in SeqToSet(system_entities[s]) :
                  CountCalls(calls, op.func, s, e) = 1
            /\ \A i, j \in 1..Len(calls) :
                  i < j =>
                      \/ IndexOf(syss, calls[i].sys) < IndexOf(syss, calls[j].sys)
                      \/ /\ calls[i].sys = calls[j].sys
                         /\ IndexOf(system_entities[calls[i].sys], calls[i].ent)
                               < IndexOf(system_entities[calls[i].sys], calls[j].ent)


\* C11 as stated: the calls of Entity.dispatch(f, p) on entity e are calls
\* f(e, p) of systems of e._systems that have a function f; every such
\* system is called exactly once; the calls are in the order in which the
\* systems were entered in e._systems (the order in which they started
\* matching e), which need not be the order of the scene's _systems.
C11_EntityDispatch ==
    op.name = "Entity.dispatch" =>
        LET syss == entity_systems[op.entity]
            withF == {s \in SeqToSet(syss) : IsFunction(s, op.func)}
        IN  /\ \A i \in 1..Len(calls) :
                  /\ calls[i].fn = op.func
                  /\ calls[i].param = op.param
                  /\ calls[i].ent = op.entity
                  /\ calls[i].sys \in withF
            /\ \A s \in withF : CountCalls(calls, op.func, s, op.entity) = 1
            /\ \A i, j \in 1..Len(calls) :
                  i < j => IndexOf(syss, calls[i].sys) < IndexOf(syss, calls[j].sys)

\* A string of decimal digits without a leading zero.
IsDecimal(k) ==
    /\ Len(k) > 0
    /\ \A i \in 1..Len(k) : k[i] \in DigitSet
    /\ (Len(k) = 1 \/ k[1] # "0")

\* C12: the ids a scene has generated are the decimal strings of 0, 1, 2, ...
\* in that order ("0", "1", "2" first), the counter is their number, and no
\* id was generated twice.
C12_GeneratedIds ==
    \A sc \in Scenes :
        LET g == generated[sc]
        IN  /\ \A i \in 1..Len(g) : IsDecimal(g[i]) /\ ToNumber(g[i]) = i - 1
            /\ Len(g) >= 1 => g[1] = <<"0">>
            /\ Len(g) >= 2 => g[2] = <<"1">>
            /\ Len(g) >= 3 => g[3] = <<"2">>
            /\ \A i, j \in 1..Len(g) : i # j => g[i] # g[j]
            /\ scene_count[sc] = Len(g)

\* A scene has generated "0", "1" and "2", the last one just now.
C12_Witness ==
    /\ generated["sc1"] = << <<"0">>, <<"1">>, <<"2">> >>
    /\ op.uid = <<"2">>

\* C13 as stated: two distinct entities that were added to the scene (their
\* id is set; no entity is ever removed) do not carry the same id.
C13_UniqueIds ==
    \A e1, e2 \in Entities :
        (e1 # e2 /\ entity_id[e1] # << >> /\ entity_id[e2] # << >>)
            => entity_id[e1] # entity_id[e2]

\* C14 as stated: addEntity(e) returns e, with a non-empty id under which
\* getEntity returns e; and query() without arguments on a scene without
\* systems returns every entity that was added to the scene.
C14_AddEntityAndQuery ==
    /\ op.name = "addEntity" =>
          /\ op.result = op.entity
          /\ entity_id[op.entity] # << >>
          /\ GetEntity(op.scene, entity_id[op.entity]) = op.entity
    /\ (op.name = "query" /\ op.components = {} /\ scene_systems[op.scene] = << >>) =>
          SeqToSet(op.ret) = {e \in Entities : entity_id[e] # << >>}

\* C15 as stated: no entity occurs twice in a system's entities and no
\* system occurs twice in an entity's _systems.
C15_MembershipIsSet ==
    \A e \in Entities, s \in Systems :
        /\ Occurrences(system_entities[s], e) <= 1
        /\ Occurrences(entity_systems[e], s) <= 1

\* C16 as stated: once a system's scene is set, it does not change.
C16_SceneSetOnce ==
    [][\A s \in Systems :
          system_scene[s] # Null => system_scene'[s] = system_scene[s]]_vars

\* C17 as stated: Entity.set for a component the entity does not hold throws,
\* whatever the field mapping, and leaves the components as they were.
C17_SetMissingComponent ==
    [][(op'.name = "set" /\ op'.component \notin DOMAIN entity_components[op'.entity])
       => /\ op'.result = "TypeError"
          /\ entity_components' = entity_components
    ]_vars

\* C18 as stated: removeEntity(e) for an entity that is not stored in the
\* scene returns normally or signals that the entity was not found, calls no
\* exit and leaves the scene, the membership arrays and the counter as they
\* were.
C18_RemoveAbsentEntity ==
    [][(/\ op'.name = "removeEntity"
        /\ GetEntity(op'.scene, entity_id[op'.entity]) # op'.entity)
       => /\ op'.result \in {"undefined", "NotFound"}
          /\ calls' = << >>
          /\ UNCHANGED <<scene_entities, scene_count, system_entities, entity_systems>>
    ]_vars

\* An entity that is a member of some system although getEntity of its id
\* returns another entity.
Orphan(e) ==
    /\ entity_id[e] # << >>
    /\ \E sc \in Scenes : GetEntity(sc, entity_id[e]) \in Entities \ {e}
    /\ \A sc \in Scenes : GetEntity(sc, entity_id[e]) # e

\* C19: an addEntity whose id (explicit, or generated) is the key under which
\* another entity is stored makes getEntity(id) return the new entity, and
\* leaves the other entity its id, its _systems and its place in every
\* system's entities; a later Scene.dispatch still calls the function for
\* that entity.
C19_NoCollisionCheck ==
    [][/\ op'.name = "addEntity" =>
            LET old == GetEntity(op'.scene, entity_id'[op'.entity])
            IN  (old \in Entities \ {op'.entity}) =>
                    /\ ObjGet(scene_entities'[op'.scene], entity_id'[op'.entity])
                          = op'.entity
                    /\ entity_id'[old] = entity_id[old]
                    /\ entity_systems'[old] = entity_systems[old]
                    /\ \A s \in Systems :
                          Occurrences(system_entities'[s], old)
                              = Occurrences(system_entities[s], old)
       /\ op'.name = "dispatch" =>
            \A e \in Entities, s \in SceneSystems(op'.scene) :
                (Orphan(e) /\ Member(e, s) /\ IsFunction(s, op'.func))
                    => CountCalls(calls', op'.func, s, e) >= 1
    ]_vars

\* A dispatch has called update for an entity whose id now maps to another
\* entity.
C19_Witness ==
    /\ op.name = "dispatch"
    /\ op.func = "update"
    /\ \E e \in Entities :
          /\ Orphan(e)
          /\ \E i \in 1..Len(calls) : calls[i].ent = e

\* C20: Scene.query(...components) changes nothing (no field of the scene,
\* of an entity or of a system, and no System method is called); it returns
\* one element per key of _entities whose entity has all the components,
\* these entities and no others; and a query that directly follows a query
\* with the same arguments returns the same array.
C20_QueryReadOnly ==
    [][op'.name = "query" =>
        LET obj == scene_entities'[op'.scene]
            ks == {k \in ObjKeys(obj) :
                     \A c \in op'.components :
                         c \in DOMAIN entity_components'[ObjGet(obj, k)]}
        IN  /\ UNCHANGED <<scene_entities, scene_systems, scene_count, entity_id,
                           entity_systems, entity_components, system_scene,
                           system_entities, generated>>
            /\ calls' = << >>
            /\ Len(op'.ret) = Cardinality(ks)
            /\ SeqToSet(op'.ret) = {ObjGet(obj, k) : k \in ks}
            /\ (op.name = "query" /\ op.scene = op'.scene
                    /\ op.components = op'.components) => op'.ret = op.ret
    ]_vars

\* A query for Position has returned some stored entity and left out another.
C20_Witness ==
    /\ op.name = "query"
    /\ op.components = {"Position"}
    /\ op.ret # << >>
    /\ \E e \in SceneEntities(op.scene) : e \notin SeqToSet(op.ret)


\* C21: Entity.has(...components) returns true exactly when the entity
\* holds an instance for every component of the argument list, and so
\* returns true for an empty argument list on every entity.
C21_Has ==
    op.name = "has" =>
        /\ op.result \in {"true", "false"}
        /\ op.result = "true" <=>
              \A i \in 1..Len(op.args) : op.args[i] \in DOMAIN entity_components[op.entity]
        /\ op.args = << >> => op.result = "true"

\* has(Position, Velocity) has returned false for an entity that holds
\* Position and not Velocity.
C21_Witness ==
    /\ op.name = "has"
    /\ op.args = <<"Position", "Velocity">>
    /\ op.result = "false"
    /\ DOMAIN entity_components[op.entity] = {"Position"}


\* C22: Entity.add(component) returns without an error, leaves under the
\* component's name a new instance (the fields as the component class
\* initialises them, whatever instance was there), and changes nothing else:
\* the entity's other components, the other entities, every _systems and
\* entities array, the scene's objects and the ids; no System method is
\* called.
C22_EntityAddFrame ==
    [][op'.name = "add" =>
        /\ op'.result = "undefined"
        /\ DOMAIN entity_components'[op'.entity]
              = DOMAIN entity_components[op'.entity] \cup {op'.component}
        /\ entity_components'[op'.entity][op'.component] = NewComponent(op'.component)
        /\ \A c \in DOMAIN entity_components[op'.entity] \ {op'.component} :
              entity_components'[op'.entity][c] = entity_components[op'.entity][c]
        /\ \A e \in Entities \ {op'.entity} :
              entity_components'[e] = entity_components[e]
        /\ UNCHANGED <<scene_entities, scene_systems, scene_count, entity_id,
                       entity_systems, system_scene, system_entities>>
        /\ calls' = << >>
    ]_vars

\* An add(Velocity) on an entity that held Position and is a member of a
\* system whose test it no longer passes: the membership is as it was.
C22_Witness ==
    /\ op.name = "add"
    /\ op.component = "Velocity"
    /\ "Position" \in DOMAIN entity_components[op.entity]
    /\ \E s \in Systems :
          Member(op.entity, s) /\ ~Test(s, entity_components[op.entity])


\* C23: sBase, the system that keeps the default test of System, matches
\* nothing: in every state its entities array is empty, it is in no entity's
\* _systems, and the last operation has not called its init.
C23_DefaultTestMatchesNothing ==
    /\ system_entities["sBase"] = << >>
    /\ \A e \in Entities : "sBase" \notin SeqToSet(entity_systems[e])
    /\ \A i \in 1..Len(calls) : ~(calls[i].sys = "sBase" /\ calls[i].fn = "init")

\* sBase is in a scene that stores two entities, and an addComponentToEntity
\* has tested it and has matched the entity with another system.
C23_Witness ==
    /\ op.name = "addComponentToEntity"
    /\ "sBase" \in SceneSystems(op.scene)
    /\ Cardinality(SceneEntities(op.scene)) = 2
    /\ \E i \in 1..Len(calls) : calls[i].sys = "sBase" /\ calls[i].fn = "test"
    /\ \E i \in 1..Len(calls) : calls[i].sys # "sBase" /\ calls[i].fn = "init"


\* C24 as stated: an addEntity(e) that directly follows removeEntity(e) on
\* the same scene leaves e a member of exactly the systems of the scene
\* whose test holds of e at that moment, in both arrays.
C24_RemoveThenAddShrinks ==
    [][(/\ op.name = "removeEntity"
        /\ op'.name = "addEntity"
        /\ op'.entity = op.entity
        /\ op'.scene = op.scene)
       => \A s \in SeqToSet(scene_systems'[op'.scene]) :
              /\ op'.entity \in SeqToSet(system_entities'[s])
                    <=> Test(s, entity_components'[op'.entity])
              /\ s \in SeqToSet(entity_systems'[op'.entity])
                    <=> Test(s, entity_components'[op'.entity])
    ]_vars

\* C26 as stated: removeEntity(e), for e stored in the scene, returns e and
\* leaves e stored under no key of the scene.
C26_RemoveEntityReturns ==
    [][(/\ op'.name = "removeEntity"
        /\ GetEntity(op'.scene, entity_id[op'.entity]) = op'.entity)
       => /\ op'.result = op'.entity
          /\ op'.entity \notin {scene_entities'[op'.scene][i].value :
                                   i \in 1..Len(scene_entities'[op'.scene])}
    ]_vars

\* C27 as stated: _count is the number of addEntity calls made on the scene:
\* every addEntity, with or without an explicit id, raises it by one, no
\* other operation changes it, and it never decreases.
C27_CountIsAdds ==
    [][\A sc \in Scenes :
          /\ scene_count'[sc] >= scene_count[sc]
          /\ scene_count'[sc] =
                IF op'.name = "addEntity" /\ op'.scene = sc
                THEN scene_count[sc] + 1 ELSE scene_count[sc]
    ]_vars


\* The systems on which the calls of cs named f were made, in call order.
RECURSIVE CalledSystems(_, _)
CalledSystems(cs, f) ==
    IF Len(cs) = 0 THEN << >>
    ELSE (IF Head(cs).fn = f THEN <<Head(cs).sys>> ELSE << >>)
         \o CalledSystems(Tail(cs), f)

\* C30: addEntity(e) calls test(e) on the elements of the scene's _systems
\* in the array's order, calls init(e) on a system right after its test
\* returned true and before the next system is tested, each init finds the
\* pair recorded in e._systems and in the system's entities, and e._systems
\* is extended by the systems init was called on, in that order.
C30_AddEntityOrder ==
    [][op'.name = "addEntity" =>
        LET e == op'.entity
            inits == CalledSystems(calls', "init")
        IN  /\ CalledSystems(calls', "test") = scene_systems'[op'.scene]
            /\ \A i \in 1..Len(calls') :
                  /\ calls'[i].ent = e
                  /\ calls'[i].fn \in {"test", "init"}
                  /\ calls'[i].fn = "init" =>
                        /\ i > 1
                        /\ calls'[i - 1].fn = "test"
                        /\ calls'[i - 1].sys = calls'[i].sys
                        /\ Test(calls'[i].sys, entity_components'[e])
                  /\ (calls'[i].fn = "test" /\ Test(calls'[i].sys, entity_components'[e]))
                        => (i < Len(calls') /\ calls'[i + 1].fn = "init")
            /\ Len(op'.seen) = Len(inits)
            /\ \A k \in 1..Len(inits) :
                  op'.seen[k] = [sys |-> inits[k], ent |-> e,
                                 inSystems |-> TRUE, inEntities |-> TRUE]
            /\ entity_systems'[e] = entity_systems[e] \o inits
    ]_vars

\* An addEntity on a scene of three systems has matched the first and the
\* last of them.
C30_Witness ==
    /\ op.name = "addEntity"
    /\ Len(scene_systems[op.scene]) = 3
    /\ Len(op.seen) = 2
    /\ op.seen[1].sys = scene_systems[op.scene][1]
    /\ op.seen[2].sys = scene_systems[op.scene][3]
    /\ entity_systems[op.entity] = <<op.seen[1].sys, op.seen[2].sys>>


\* Every image of the asset manager is complete.
AllComplete == \A i \in 1..Len(am_images) : img_complete[am_images[i]]

\* C28 as stated: an onLoad callback is called only in a state where every
\* image of the index is complete, and a callback that is registered while
\* every image of the index is complete is called at some time, for every
\* index, the empty one included.
C28_OnLoadWhenLoaded ==
    /\ [][\A cb \in Callbacks :
             am_invoked'[cb] > am_invoked[cb] =>
                 \A i \in 1..Len(am_images') : img_complete'[am_images'[i]]]_vars
    /\ \A cb \in Callbacks :
          (cb \in SeqToSet(am_callbacks) /\ AllComplete) ~> (am_invoked[cb] >= 1)


\* C29 as stated: from stop() to the next start() (_shouldStop is true) no
\* step calls a tick callback, and a stopped timer is started again or ends
\* up with no animation-frame request pending (as far as the run is
\* followed: up to MaxTicks ticks).
C29_StopStopsTicking ==
    /\ [][(timer_shouldStop /\ timer_shouldStop') => timer_invoked' = << >>]_vars
    /\ timer_shouldStop
          ~> (\/ Pending = 0
              \/ ~timer_shouldStop
              \/ frame = 0 /\ timer_ticks + raf > MaxTicks)


\* C25 as stated, for Scene.dispatch with a function that adds entities to
\* the scene: the number of calls of the function that a dispatch makes
\* stays within the product of the numbers of entities and systems of the
\* scene when dispatch was called (or within the number of calls a
\* traversal of the arrays as they were then makes, should that be larger).
C25_DispatchBounded ==
    LET byCounts == dispatching.entities * dispatching.systems
    IN  dispatching.hooks <= (IF byCounts >= dispatching.planned
                              THEN byCounts ELSE dispatching.planned)


\* The value the field mapping data gives key k (the last one, should a key
\* occur twice).
DataValue(data, k) ==
    data[CHOOSE i \in 1..Len(data) :
            data[i].key = k /\ \A j \in (i + 1)..Len(data) : data[j].key # k].value

\* C31: Entity.set(component, data) on a component the entity holds returns
\* without an error, leaves each field named in data with the value data
\* gives it, and leaves alone every other field of that instance, every
\* other component of the entity, the other entities, the ids, the
\* membership arrays and the scene; no System method is called.
C31_SetFrame ==
    [][(op'.name = "set" /\ op'.component \in DOMAIN entity_components[op'.entity]) =>
        LET e == op'.entity
            c == op'.component
            keys == {op'.data[i].key : i \in 1..Len(op'.data)}
            old == entity_components[e][c]
            new == entity_components'[e][c]
        IN  /\ op'.result = "undefined"
            /\ DOMAIN entity_components'[e] = DOMAIN entity_components[e]
            /\ DOMAIN new = DOMAIN old \cup keys
            /\ \A k \in keys : new[k] = DataValue(op'.data, k)
            /\ \A k \in DOMAIN old \ keys : new[k] = old[k]
            /\ \A d \in DOMAIN entity_components[e] \ {c} :
                  entity_components'[e][d] = entity_components[e][d]
            /\ \A x \in Entities \ {e} : entity_components'[x] = entity_components[x]
            /\ UNCHANGED <<scene_entities, scene_systems, scene_count, entity_id,
                           entity_systems, system_scene, system_entities>>
            /\ calls' = << >>
    ]_vars

\* set(Position, {x: 1}) on an entity that is stored in a scene and is a
\* member of a system has left x = 1 and y as it was.
C31_Witness ==
    /\ op.name = "set"
    /\ op.component = "Position"
    /\ op.data # << >>
    /\ entity_id[op.entity] # << >>
    /\ entity_systems[op.entity] # << >>
    /\ "Position" \in DOMAIN entity_components[op.entity]
    /\ entity_components[op.entity]["Position"] = [x |-> 1, y |-> 0]


\* C32 as stated: at most one animation-frame request of the timer is
\* pending, and the timer's callbacks of one animation frame call no tick
\* callback more than once.
C32_OneTickLoop ==
    /\ Pending <= 1
    /\ \A cb \in TickCallbacks : Occurrences(frame_invoked, cb) <= 1

\* C33 as stated: the asset manager has called no callback more often than
\* it was registered with onLoad.
C33_CallbackAtMostOnce ==
    \A cb \in Callbacks : am_invoked[cb] <= Occurrences(am_callbacks, cb)

====
